---------------------------- MODULE Spec2Model ----------------------------
(***************************************************************************)
(* A model of qTox's ToxCore wrapper (toxcore.cpp / toxcore.h): the call   *)
(* normalizers qtox_call_core and qtox_call_core_variant, the validation   *)
(* guard clamp, the session constructor and destructor, and the wrapper    *)
(* methods built from them.                                                *)
(*                                                                         *)
(* The wrapped C library is a mock: every boundary call the wrapper makes  *)
(* is recorded, with the arguments it was given and the value and error    *)
(* code the library answered, in the record of the operation that made it. *)
(*                                                                         *)
(* Values.  A Tox* is NullPtr or a handle.  A byte buffer handed to the    *)
(* library is [null, len]: the null pointer, or a pointer to len bytes.    *)
(* A QByteArray is [len].  A QString is [chars, bytes]: its size() in      *)
(* UTF-16 code units and the number of bytes of its UTF-8 encoding.        *)
(* A QVariant is <<>> (null) or <<v>> (holding v).  bool is BOOLEAN.       *)
(* uint32_t values stay below 2^31 except for UINT32_MAX, which is written *)
(* -1 (the same bit pattern), because TLC's integers are 32 bits wide.     *)
(***************************************************************************)
EXTENDS Integers, Sequences, FiniteSets, TLC

VARIABLES
    alive,      \* lifetime of the ToxCore object: "none", "constructed", "destroyed"
    tox,        \* ToxCore::tox
    error,      \* ToxCore::error, what constructorError() returns
    callbacks,  \* the trampolines the library holds: [category, context]
    kills,      \* the handles tox_kill has been called with, in order
    op,         \* the last operation: name, inputs, result, boundary calls, diagnostics
    lib,        \* mock library: the size of each datum it holds for the session
    net,        \* mock library: the callbacks it will still raise, the data changes still to come
    raised,     \* mock library: the callbacks it has raised, in order
    events,     \* the signals the session has emitted, in order
    opts,       \* the ToxOptions objects: what each holds in its member tox_options
    frees       \* the handles tox_options_free has been called with, in order

sessionvars == <<alive, tox, error, callbacks, kills>>
libvars == <<lib, net>>
eventvars == <<raised, events>>
optvars == <<opts, frees>>
vars == <<alive, tox, error, callbacks, kills, op, lib, net, raised, events, opts, frees>>

-----------------------------------------------------------------------------
(* The last operation run on the session: which one, with what inputs, and
   what it returned, called and logged.  name is the first field: records of
   different operations hold values of different types in the other fields
   and are told apart by name alone *)

NoOp == [name |-> "none", in |-> <<>>, ret |-> FALSE, calls |-> <<>>, diags |-> <<>>,
         threw |-> FALSE]

OpRecord(name, in, res) ==
    [name |-> name, in |-> in, ret |-> res.ret, calls |-> res.calls,
     diags |-> res.diags, threw |-> res.threw]

----------------------------------------------------------------------------
(* Bounds of the model *)

\* friend, file, group numbers range over 0..MaxNumber
MaxNumber == 1
\* failure codes of one error enum range over 1..MaxErrCode
MaxErrCode == 1
\* a QString's characters take 1..MaxCharWidth bytes each in UTF-8
MaxCharWidth == 2
\* a datum the library holds is empty or MaxSize bytes (entries) long
MaxSize == 3
\* the network changes the data the library holds at most MaxChanges times
MaxChanges == 2
\* the library raises at most MaxRaised callbacks in the life of a session
MaxRaised == 2

\* a group chat has up to MaxPeers peers
MaxPeers == 2

----------------------------------------------------------------------------
(* Constants of tox.h (the values of the toxcore the wrapper is written for), *)
(* as the wrapper uses them                                                  *)

TOX_PUBLIC_KEY_SIZE == 32
TOX_ADDRESS_SIZE == 38
TOX_MAX_NAME_LENGTH == 128
TOX_MAX_STATUS_MESSAGE_LENGTH == 1007
TOX_MAX_FRIEND_REQUEST_LENGTH == 1016
TOX_MAX_MESSAGE_LENGTH == 1372
TOX_MAX_CUSTOM_PACKET_SIZE == 1373
TOX_FILE_ID_LENGTH == 32
TOX_MAX_FILENAME_LENGTH == 255
\* the literal 255 of bootstrap and addTcpRelay
MAX_HOST_LENGTH == 255
\* every TOX_ERR_*_OK enumerator is the first of its enum
TOX_ERR_OK == 0
\* (uint32_t)-1
UINT32_MAX == -1
\* (size_t)-1
SIZE_MAX == -1
\* the largest uint16_t and uint8_t, the length types of the group callbacks
UINT16_MAX == 65535
UINT8_MAX == 255

NullPtr == "nullptr"
Handles == {"tox1"}

TOX_ERR_NEW_OK == "TOX_ERR_NEW_OK"
TOX_ERR_NEW_LOAD_BAD_FORMAT == "TOX_ERR_NEW_LOAD_BAD_FORMAT"
\* the enum has seven more failure codes, which the constructor treats alike
TOX_ERR_NEW ==
    { TOX_ERR_NEW_OK, "TOX_ERR_NEW_MALLOC", "TOX_ERR_NEW_LOAD_ENCRYPTED",
      TOX_ERR_NEW_LOAD_BAD_FORMAT }

----------------------------------------------------------------------------
(* Containers and buffers *)

NullBuf == [null |-> TRUE, len |-> 0]
Buf(n) == [null |-> FALSE, len |-> n]

\* QByteArray::data() with QByteArray::size()
QBA_data(ba) == Buf(ba.len)

\* the containers a signal carries: what they are and how many bytes they hold
NoContainer == [container |-> "none", length |-> 0]

\* CString::toString(data, length): the text decoded from length bytes
toString(data, length) == [container |-> "QString", length |-> length]

\* QByteArray(QBA_CAST(data), length)
QByteArrayOf(data, length) == [container |-> "QByteArray", length |-> length]

\* CString(const QString&): the string's UTF-8 bytes; data() and size()
CString(s) == Buf(s.bytes)

\* QString(): isNull()
QStringNull == [null |-> TRUE, bytes |-> 0]
\* QString(const QByteArray&): the text decoded from the array's bytes (the
\* library's text holds no zero byte); not null, even when the array is empty
QStringOf(ba) == [null |-> FALSE, bytes |-> ba.len]

\* QByteArray ret; ret.resize(n): n bytes, data() never null
Resized(n) == [len |-> n]

QVariantNull == <<>>
QVariant(v) == <<v>>

\* sizes worth trying against a limit
LenSamples(max) == {0, max \div 2, max, max + 1}

QStrings(max) ==
    { [chars |-> n, bytes |-> n * w] : n \in LenSamples(max), w \in 1..MaxCharWidth }

QByteArrays(max) == { [len |-> n] : n \in LenSamples(max) }

Numbers == 0..MaxNumber
Ports == {33445}

\* what a call of a void library function leaves
Void == [ret |-> FALSE, err |-> TOX_ERR_OK]

\* what the mock library answers to a call with an error out-parameter
Responses(rets) == { [ret |-> v, err |-> e] : v \in rets, e \in TOX_ERR_OK..MaxErrCode }

----------------------------------------------------------------------------
(* The result of a wrapper operation *)

\* threw: the operation left by a C++ exception instead of returning
Result(ret, calls, diags) ==
    [ret |-> ret, calls |-> calls, diags |-> diags, threw |-> FALSE]

\* a call of a library function: how it was made, with what, and the answer
Call(norm, fn, ok_val, args, r) ==
    [norm |-> norm, fn |-> fn, ok |-> ok_val, args |-> args, ret |-> r.ret, err |-> r.err]

\* a call that has the library fill a buffer of the caller: wrote is the number
\* of bytes (entries) the library wrote into it
FillCall(norm, fn, ok_val, args, r, wrote) ==
    [norm |-> norm, fn |-> fn, ok |-> ok_val, args |-> args, ret |-> r.ret, err |-> r.err,
     wrote |-> wrote]

\* qWarning() << "Error:" << name << "failed with code" << error
FailedDiag(name, code) ==
    [kind |-> "failed", who |-> name, line |-> 0, a |-> code, b |-> 0]

qtox_call_core_twice(name, ok_val, args, r) ==
    Result(r.ret,
           IF r.err # ok_val
               THEN <<Call("core", name, ok_val, args, r), Call("core", name, ok_val, args, r)>>
               ELSE <<Call("core", name, ok_val, args, r)>>,
           IF r.err # ok_val THEN <<FailedDiag(name, r.err)>> ELSE <<>>)

qtox_call_core(name, ok_val, args, r) ==
    Result(r.ret,
           <<Call("core", name, ok_val, args, r)>>,
           IF r.err # ok_val THEN <<FailedDiag(name, r.err)>> ELSE <<>>)

qtox_call_core_variant_silent(name, ok_val, args, r) ==
    IF r.err # ok_val
        THEN Result(QVariantNull, <<Call("variant", name, ok_val, args, r)>>, <<>>)
        ELSE Result(QVariant(r.ret), <<Call("variant", name, ok_val, args, r)>>, <<>>)

qtox_call_core_variant_keep(name, ok_val, args, r) ==
    Result(QVariant(r.ret),
           <<Call("variant", name, ok_val, args, r)>>,
           IF r.err # ok_val THEN <<FailedDiag(name, r.err)>> ELSE <<>>)

qtox_call_core_variant(name, ok_val, args, r) ==
    IF r.err # ok_val
        THEN Result(QVariantNull,
                    <<Call("variant", name, ok_val, args, r)>>,
                    <<FailedDiag(name, r.err)>>)
        ELSE Result(QVariant(r.ret), <<Call("variant", name, ok_val, args, r)>>, <<>>)

----------------------------------------------------------------------------
(* clamp: the validation guard.  ok is what it returns, diags what it logs *)

CLAMP_LTE == "CLAMP_LTE"
CLAMP_EQ == "CLAMP_EQ"
CLAMP_GTE == "CLAMP_GTE"

UnknownClampDiag == [kind |-> "unknown clamp type", who |-> "", line |-> 0, a |-> 0, b |-> 0]
ClampDiag(func, line, sz, req) ==
    [kind |-> "clamp", who |-> func, line |-> line, a |-> sz, b |-> req]

\* size_t.  A size is written as the signed number with the same low bits: the
\* sizes up to the largest int are themselves, the sizes at the top of the range
\* are the negative numbers (SIZE_MAX is -1), which is also what the conversion
\* of a negative int to size_t gives.  SizeLE is the order of size_t on them.
SizeLE(a, b) == IF (a < 0) = (b < 0) THEN a <= b ELSE b < 0

clamp_signed(sz, req, type, func, line) ==
    IF \/ type = CLAMP_LTE /\ sz <= req
       \/ type = CLAMP_EQ /\ sz = req
       \/ type = CLAMP_GTE /\ sz >= req
        THEN [ok |-> TRUE, diags |-> <<>>]
        ELSE [ok |-> FALSE, diags |-> <<UnknownClampDiag, ClampDiag(func, line, sz, req)>>]

clamp_strict(sz, req, type, func, line) ==
    IF \/ type = CLAMP_LTE /\ sz < req
       \/ type = CLAMP_EQ /\ sz = req
       \/ type = CLAMP_GTE /\ sz >= req
        THEN [ok |-> TRUE, diags |-> <<>>]
        ELSE [ok |-> FALSE, diags |-> <<UnknownClampDiag, ClampDiag(func, line, sz, req)>>]

\* sz and req are size_t
clamp(sz, req, type, func, line) ==
    IF type = CLAMP_LTE /\ SizeLE(sz, req) THEN [ok |-> TRUE, diags |-> <<>>]
    ELSE IF type = CLAMP_EQ /\ sz = req THEN [ok |-> TRUE, diags |-> <<>>]
    ELSE IF type = CLAMP_GTE /\ SizeLE(req, sz) THEN [ok |-> TRUE, diags |-> <<>>]
    ELSE [ok |-> FALSE, diags |-> <<UnknownClampDiag, ClampDiag(func, line, sz, req)>>]

----------------------------------------------------------------------------
(* Wrapper methods.  t is the member tox; r is the library's answer to the *)
(* boundary call, used only if the call is made.                           *)

\* a guard failed: the method's failure value, no boundary call
Rejected(ret, diags) == Result(ret, <<>>, diags)

bootstrap(t, host, port, publicKey, r) ==
    LET c1 == clamp(host.chars, MAX_HOST_LENGTH, CLAMP_LTE, "bootstrap", 155)
        c2 == clamp(publicKey.len, TOX_PUBLIC_KEY_SIZE, CLAMP_EQ, "bootstrap", 156)
    IN  IF ~c1.ok THEN Rejected(FALSE, c1.diags)
        ELSE IF ~c2.ok THEN Rejected(FALSE, c2.diags)
        ELSE qtox_call_core("tox_bootstrap", TOX_ERR_OK,
                            <<t, CString(host), port, QBA_data(publicKey)>>, r)

addTcpRelay(t, host, port, publicKey, r) ==
    LET c1 == clamp(host.chars, MAX_HOST_LENGTH, CLAMP_LTE, "addTcpRelay", 165)
        c2 == clamp(publicKey.len, TOX_PUBLIC_KEY_SIZE, CLAMP_EQ, "addTcpRelay", 166)
    IN  IF ~c1.ok THEN Rejected(FALSE, c1.diags)
        ELSE IF ~c2.ok THEN Rejected(FALSE, c2.diags)
        ELSE qtox_call_core("tox_add_tcp_relay", TOX_ERR_OK,
                            <<t, CString(host), port, QBA_data(publicKey)>>, r)

\* void: the model gives it the value FALSE
iterate(t) ==
    Result(FALSE,
           <<Call("none", "tox_iterate", TOX_ERR_OK, <<t>>, [ret |-> FALSE, err |-> TOX_ERR_OK])>>,
           <<>>)

setSelfName(t, name, r) ==
    IF name.chars = 0
        THEN qtox_call_core("tox_self_set_name", TOX_ERR_OK, <<t, NullBuf, 0>>, r)
        ELSE LET str == CString(name)
                 c == clamp(str.len, TOX_MAX_NAME_LENGTH, CLAMP_LTE, "setSelfName", 243)
             IN  IF ~c.ok THEN Rejected(FALSE, c.diags)
                 ELSE qtox_call_core("tox_self_set_name", TOX_ERR_OK, <<t, str, str.len>>, r)

setSelfStatusMessage(t, status, r) ==
    IF status.chars = 0
        THEN qtox_call_core("tox_self_set_status_message", TOX_ERR_OK, <<t, NullBuf, 0>>, r)
        ELSE LET str == CString(status)
                 c == clamp(str.len, TOX_MAX_STATUS_MESSAGE_LENGTH, CLAMP_LTE,
                            "setSelfStatusMessage", 266)
             IN  IF ~c.ok THEN Rejected(FALSE, c.diags)
                 ELSE qtox_call_core("tox_self_set_status_message", TOX_ERR_OK,
                                     <<t, str, str.len>>, r)

\* void
setSelfStatus(t, user_status) ==
    Result(FALSE, <<Call("none", "tox_self_set_status", TOX_ERR_OK, <<t, user_status>>, Void)>>,
           <<>>)

friendAdd_anyMessage(t, address, message, r) ==
    LET msg == CString(message)
        c2 == clamp(msg.len, TOX_MAX_FRIEND_REQUEST_LENGTH, CLAMP_LTE, "friendAdd", 287)
        c3 == clamp(address.len, TOX_ADDRESS_SIZE, CLAMP_EQ, "friendAdd", 288)
    IN  IF ~c2.ok THEN Rejected(UINT32_MAX, c2.diags)
        ELSE IF ~c3.ok THEN Rejected(UINT32_MAX, c3.diags)
        ELSE qtox_call_core("tox_friend_add", TOX_ERR_OK,
                            <<t, QBA_data(address), msg, msg.len>>, r)

friendAdd(t, address, message, r) ==
    LET c1 == clamp(message.chars, 1, CLAMP_GTE, "friendAdd", 284)
        msg == CString(message)
        c2 == clamp(msg.len, TOX_MAX_FRIEND_REQUEST_LENGTH, CLAMP_LTE, "friendAdd", 287)
        c3 == clamp(address.len, TOX_ADDRESS_SIZE, CLAMP_EQ, "friendAdd", 288)
    IN  IF ~c1.ok THEN Rejected(UINT32_MAX, c1.diags)
        ELSE IF ~c2.ok THEN Rejected(UINT32_MAX, c2.diags)
        ELSE IF ~c3.ok THEN Rejected(UINT32_MAX, c3.diags)
        ELSE qtox_call_core("tox_friend_add", TOX_ERR_OK,
                            <<t, QBA_data(address), msg, msg.len>>, r)

friendAddNoRequest(t, publicKey, r) ==
    LET c == clamp(publicKey.len, TOX_PUBLIC_KEY_SIZE, CLAMP_EQ, "friendAddNoRequest", 295)
    IN  IF ~c.ok THEN Rejected(UINT32_MAX, c.diags)
        ELSE qtox_call_core("tox_friend_add_norequest", TOX_ERR_OK,
                            <<t, QBA_data(publicKey)>>, r)

friendDelete_negated(t, friend_number, r) ==
    LET res == qtox_call_core("tox_friend_delete", TOX_ERR_OK, <<t, friend_number>>, r)
    IN  [res EXCEPT !.ret = ~res.ret]

friendDelete(t, friend_number, r) ==
    qtox_call_core("tox_friend_delete", TOX_ERR_OK, <<t, friend_number>>, r)

----------------------------------------------------------------------------
(* Size query, then fill.  L is what the library holds when the method is   *)
(* called: L[k] is the size of datum k.  An infallible size query returns    *)
(* L[k] and its fill writes L[k] bytes.  r1 is the answer of a fallible size *)
(* query and r2 that of its fill.                                            *)

\* the size query of datum k, which cannot fail
SizeQuery(fn, t, L, k) ==
    Call("none", fn, TOX_ERR_OK, <<t>>, [ret |-> L[k], err |-> TOX_ERR_OK])

\* the fill of datum k into buf, which cannot fail
Fill(fn, t, buf, L, k) ==
    FillCall("none", fn, TOX_ERR_OK, <<t, buf>>, Void, L[k])

getSaveData(t, L) ==
    LET size == SizeQuery("tox_get_savedata_size", t, L, "savedata")
        ret == Resized(size.ret)
    IN  Result(ret, <<size, Fill("tox_get_savedata", t, QBA_data(ret), L, "savedata")>>, <<>>)

getSelfName_fixedBuffer(t, L) ==
    LET size == SizeQuery("tox_self_get_name_size", t, L, "self_name")
        ret == Resized(TOX_MAX_NAME_LENGTH)
    IN  Result(QStringOf(ret),
               <<size, Fill("tox_self_get_name", t, QBA_data(ret), L, "self_name")>>, <<>>)

getSelfName(t, L) ==
    LET size == SizeQuery("tox_self_get_name_size", t, L, "self_name")
        ret == Resized(size.ret)
    IN  Result(QStringOf(ret),
               <<size, Fill("tox_self_get_name", t, QBA_data(ret), L, "self_name")>>, <<>>)

getSelfStatusMessage(t, L) ==
    LET size == SizeQuery("tox_self_get_status_message_size", t, L, "self_status_message")
        ret == Resized(size.ret)
    IN  Result(QStringOf(ret),
               <<size, Fill("tox_self_get_status_message", t, QBA_data(ret), L,
                            "self_status_message")>>,
               <<>>)

\* new uint32_t[size]; the QList returned holds size numbers
getSelfFriendList(t, L) ==
    LET size == SizeQuery("tox_self_get_friend_list_size", t, L, "friend_list")
        array == Buf(size.ret)
    IN  Result([len |-> size.ret],
               <<size, Fill("tox_self_get_friend_list", t, array, L, "friend_list")>>, <<>>)

\* friendGetName and friendGetStatusMessage are the same code on different
\* functions: sizefn and fillfn, reading datum k
QueryFriendText(sizefn, fillfn, k, t, friend_number, L, r1, r2) ==
    LET size == qtox_call_core(sizefn, TOX_ERR_OK, <<t, friend_number>>, r1)
        ret == Resized(size.ret)
        fill == FillCall("core", fillfn, TOX_ERR_OK, <<t, friend_number, QBA_data(ret)>>, r2,
                         IF r2.ret THEN L[k] ELSE 0)
        diags == size.diags \o (IF r2.err # TOX_ERR_OK THEN <<FailedDiag(fillfn, r2.err)>>
                                                        ELSE <<>>)
    IN  IF size.ret = SIZE_MAX THEN Result(QStringNull, size.calls, size.diags)
        ELSE IF r2.ret THEN Result(QStringOf(ret), size.calls \o <<fill>>, diags)
        ELSE Result(QStringNull, size.calls \o <<fill>>, diags)

\* the same without the test of the size against SIZE_MAX
QueryFriendText_unchecked(sizefn, fillfn, k, t, friend_number, L, r1, r2) ==
    LET size == qtox_call_core(sizefn, TOX_ERR_OK, <<t, friend_number>>, r1)
        ret == Resized(IF size.ret = SIZE_MAX THEN 0 ELSE size.ret)
        fill == FillCall("core", fillfn, TOX_ERR_OK, <<t, friend_number, QBA_data(ret)>>, r2,
                         IF r2.ret THEN L[k] ELSE 0)
        diags == size.diags \o (IF r2.err # TOX_ERR_OK THEN <<FailedDiag(fillfn, r2.err)>>
                                                        ELSE <<>>)
    IN  IF r2.ret THEN Result(QStringOf(ret), size.calls \o <<fill>>, diags)
        ELSE Result(QStringNull, size.calls \o <<fill>>, diags)

friendGetName_unchecked(t, friend_number, L, r1, r2) ==
    QueryFriendText_unchecked("tox_friend_get_name_size", "tox_friend_get_name", "friend_name",
                              t, friend_number, L, r1, r2)

friendGetName_iterateBetween(t, friend_number, L, r1, r2) ==
    LET res == QueryFriendText("tox_friend_get_name_size", "tox_friend_get_name",
                               "friend_name", t, friend_number, L, r1, r2)
    IN  IF Len(res.calls) < 2 THEN res
        ELSE Result(res.ret,
                    << res.calls[1],
                       Call("none", "tox_iterate", TOX_ERR_OK, <<t>>, Void),
                       [res.calls[2] EXCEPT !.wrote = IF r2.ret THEN MaxSize - L["friend_name"]
                                                                ELSE 0] >>,
                    res.diags)

friendGetName_nullWhenEmpty(t, friend_number, L, r1, r2) ==
    LET res == QueryFriendText("tox_friend_get_name_size", "tox_friend_get_name",
                               "friend_name", t, friend_number, L, r1, r2)
    IN  IF res.ret.bytes = 0 THEN Result(QStringNull, res.calls, res.diags) ELSE res

friendGetName(t, friend_number, L, r1, r2) ==
    QueryFriendText("tox_friend_get_name_size", "tox_friend_get_name", "friend_name",
                    t, friend_number, L, r1, r2)

friendGetStatusMessage(t, friend_number, L, r1, r2) ==
    QueryFriendText("tox_friend_get_status_message_size", "tox_friend_get_status_message",
                    "friend_status_message", t, friend_number, L, r1, r2)

----------------------------------------------------------------------------
(* Group chats: the library returns a signed length or count, -1 on failure *)

\* an int converted to size_t: the value modulo 2^64, SIZE_MAX + 1 being 2^64
ToSizeT(n) == IF n < 0 THEN SIZE_MAX + 1 + n ELSE n

\* QString(const QByteArray&) of a buffer of which the library wrote the first
\* wrote bytes, none of them zero, and the rest was never written: the string
\* ends at the first zero byte, which is at index nul (wrote <= nul), or at the
\* end of the buffer
QStringUpToNul(ba, wrote, nul) == [null |-> FALSE, bytes |-> IF nul < ba.len THEN nul ELSE ba.len]

\* groupPeerName and groupGetTitle are the same code on different functions,
\* called with the arguments before, the buffer and the arguments after; size is
\* what the library returned, having written that many bytes if any
GroupText(fn, before, after, who, line, size, nul) ==
    LET ret == Resized(TOX_MAX_NAME_LENGTH)
        wrote == IF size < 0 THEN 0 ELSE size
        call == FillCall("none", fn, TOX_ERR_OK, before \o <<QBA_data(ret)>> \o after,
                         [ret |-> size, err |-> TOX_ERR_OK], wrote)
        c == clamp(ToSizeT(size), 0, CLAMP_GTE, who, line)
    IN  IF ~c.ok THEN Result(QStringNull, <<call>>, c.diags)
        ELSE Result(QStringUpToNul(ret, wrote, nul), <<call>>, <<>>)

groupPeerName(t, group_number, peer_number, size, nul) ==
    GroupText("tox_group_peername", <<t, group_number, peer_number>>, <<>>,
              "groupPeerName", 554, size, nul)

groupGetTitle(t, group_number, size, nul) ==
    GroupText("tox_group_get_title", <<t, group_number>>, <<TOX_MAX_NAME_LENGTH>>,
              "groupGetTitle", 603, size, nul)

\* new T[n] and delete[] as calls: block names what is allocated; with n < 0
\* the new-expression throws
New(block, n) ==
    Call("heap", "operator new[]", TOX_ERR_OK, <<block, n>>,
         [ret |-> IF n < 0 THEN NullPtr ELSE block, err |-> TOX_ERR_OK])

Delete(block) == Call("heap", "operator delete[]", TOX_ERR_OK, <<block>>, Void)

\* what a new-expression with a negative number of elements throws: the
\* exception of C++11, or that of an allocation of the wrapped size
NegativeNew == {"std::bad_array_new_length", "std::bad_alloc"}

\* ToxCore::groupGetNames: num is the peer count the library reports, got
\* what its fill returns, lengths the lengths it writes (kept as what the fill
\* wrote), fault what a new-expression with a negative size throws
groupGetNames(t, group_number, num, got, lengths, fault) ==
    LET count == Call("none", "tox_group_number_peers", TOX_ERR_OK, <<t, group_number>>,
                      [ret |-> num, err |-> TOX_ERR_OK])
        fill == FillCall("none", "tox_group_get_names", TOX_ERR_OK,
                         <<t, group_number, "names", "lengths", num>>,
                         [ret |-> got, err |-> TOX_ERR_OK],
                         [i \in 1..(IF got < 0 THEN 0 ELSE got) |-> lengths[i]])
        allocated == <<count, New("names", num), New("lengths", num), fill>>
    IN  IF num < 0
            THEN [ret |-> fault, calls |-> <<count, New("names", num)>>, diags |-> <<>>,
                  threw |-> TRUE]
        ELSE IF num # got THEN Result(<<>>, allocated, <<>>)
        ELSE Result([i \in 1..num |-> toString("names", lengths[i])],
                    allocated \o <<Delete("names"), Delete("lengths")>>, <<>>)

friendByPublicKey(t, public_key, r) ==
    LET c == clamp(public_key.len, TOX_PUBLIC_KEY_SIZE, CLAMP_EQ, "friendByPublicKey", 307)
    IN  IF ~c.ok THEN Rejected(UINT32_MAX, c.diags)
        ELSE qtox_call_core("tox_friend_by_public_key", TOX_ERR_OK,
                            <<t, QBA_data(public_key)>>, r)

friendGetStatus(t, friend_number, r) ==
    qtox_call_core_variant("tox_friend_get_status", TOX_ERR_OK, <<t, friend_number>>, r)

friendGetConnectionStatus(t, friend_number, r) ==
    qtox_call_core_variant("tox_friend_get_connection_status", TOX_ERR_OK,
                           <<t, friend_number>>, r)

friendGetTyping(t, friend_number, r) ==
    qtox_call_core_variant("tox_friend_get_typing", TOX_ERR_OK, <<t, friend_number>>, r)

selfSetTyping(t, friend_number, typing, r) ==
    qtox_call_core("tox_self_set_typing", TOX_ERR_OK, <<t, friend_number, typing>>, r)

friendSendMessage(t, friend_number, type, message, r) ==
    LET msg == CString(message)
        c1 == clamp(msg.len, 1, CLAMP_GTE, "friendSendMessage", 416)
        c2 == clamp(msg.len, TOX_MAX_MESSAGE_LENGTH, CLAMP_LTE, "friendSendMessage", 417)
    IN  IF ~c1.ok THEN Rejected(QVariantNull, c1.diags)
        ELSE IF ~c2.ok THEN Rejected(QVariantNull, c2.diags)
        ELSE qtox_call_core_variant("tox_friend_send_message", TOX_ERR_OK,
                                    <<t, friend_number, type, msg, msg.len>>, r)

fileControl(t, friend_number, file_number, control, r) ==
    qtox_call_core("tox_file_control", TOX_ERR_OK,
                   <<t, friend_number, file_number, control>>, r)

fileSeek(t, friend_number, file_number, position, r) ==
    qtox_call_core("tox_file_seek", TOX_ERR_OK,
                   <<t, friend_number, file_number, position>>, r)

fileSend_idAsGiven(t, friend_number, kind, file_size, file_id, filename, r) ==
    LET name == CString(filename)
    IN  qtox_call_core("tox_file_send", TOX_ERR_OK,
                       <<t, friend_number, kind, file_size, QBA_data(file_id), name, name.len>>, r)

fileSend(t, friend_number, kind, file_size, file_id, filename, r) ==
    LET c == clamp(file_id.len, TOX_FILE_ID_LENGTH, CLAMP_EQ, "fileSend", 480)
        name == CString(filename)
    IN  IF file_id.len = 0
            THEN qtox_call_core("tox_file_send", TOX_ERR_OK,
                                <<t, friend_number, kind, file_size, NullBuf, name, name.len>>, r)
        ELSE IF ~c.ok THEN Rejected(UINT32_MAX, c.diags)
        ELSE qtox_call_core("tox_file_send", TOX_ERR_OK,
                            <<t, friend_number, kind, file_size, QBA_data(file_id), name,
                              name.len>>, r)

friendSendLossyPacket(t, friend_number, data, r) ==
    LET c == clamp(data.len, TOX_MAX_CUSTOM_PACKET_SIZE, CLAMP_LTE, "friendSendLossyPacket", 643)
    IN  IF ~c.ok THEN Rejected(FALSE, c.diags)
        ELSE qtox_call_core("tox_friend_send_lossy_packet", TOX_ERR_OK,
                            <<t, friend_number, QBA_data(data), data.len>>, r)

friendSendLosslessPacket(t, friend_number, data, r) ==
    LET c == clamp(data.len, TOX_MAX_CUSTOM_PACKET_SIZE, CLAMP_LTE,
                   "friendSendLosslessPacket", 656)
    IN  IF ~c.ok THEN Rejected(FALSE, c.diags)
        ELSE qtox_call_core("tox_friend_send_lossless_packet", TOX_ERR_OK,
                            <<t, friend_number, QBA_data(data), data.len>>, r)

----------------------------------------------------------------------------
(* Construction and teardown *)

\* the tox_callback_* registrations of the constructor, in its order
CallbackCategories ==
    << "self_connection_status", "friend_name", "friend_status_message",
       "friend_status", "friend_connection_status", "friend_typing",
       "friend_read_receipt", "friend_request", "friend_message",
       "file_recv_control", "file_chunk_request", "file_recv", "file_recv_chunk",
       "group_invite", "group_message", "group_action", "group_title",
       "group_namelist_change", "friend_lossy_packet", "friend_lossless_packet" >>

This == "this"

RegisterCallbacks(t) ==
    [ i \in 1..Len(CallbackCategories) |->
        Call("none", "tox_callback_" \o CallbackCategories[i], TOX_ERR_OK,
             <<t, CallbackCategories[i], This>>, [ret |-> FALSE, err |-> TOX_ERR_OK]) ]

Registered(t) ==
    { [category |-> CallbackCategories[i], tox |-> t, context |-> This] :
        i \in 1..Len(CallbackCategories) }

\* what the mock tox_new may answer: an instance with TOX_ERR_NEW_OK and, as the
\* constructor's warning has it ("some data may still be loaded"), with
\* TOX_ERR_NEW_LOAD_BAD_FORMAT; NULL with any other code
ToxNewResponses ==
    { [ret |-> h, err |-> e] :
        h \in Handles, e \in {TOX_ERR_NEW_OK, TOX_ERR_NEW_LOAD_BAD_FORMAT} } \cup
    { [ret |-> NullPtr, err |-> e] :
        e \in TOX_ERR_NEW \ {TOX_ERR_NEW_OK, TOX_ERR_NEW_LOAD_BAD_FORMAT} }

\* the same, and what a library that gives no instance along with
\* TOX_ERR_NEW_LOAD_BAD_FORMAT answers
ToxNewAnswers ==
    ToxNewResponses \cup { [ret |-> NullPtr, err |-> TOX_ERR_NEW_LOAD_BAD_FORMAT] }

\* ToxCore::ToxCore: the members it leaves, and what it did
Constructed(t, e, cbs, calls, diags) ==
    [tox |-> t, error |-> e, callbacks |-> cbs, res |-> Result(FALSE, calls, diags)]

ToxCore_strictLoad(options, data, r) ==
    LET dat == IF data.len = 0 THEN NullBuf ELSE QBA_data(data)
        size == IF data.len = 0 THEN 0 ELSE data.len
        new == Call("none", "tox_new", TOX_ERR_NEW_OK, <<options, dat, size>>, r)
    IN  IF r.err # TOX_ERR_NEW_OK
            THEN Constructed(NullPtr, r.err, {}, <<new>>, <<FailedDiag("tox_new", r.err)>>)
            ELSE Constructed(r.ret, r.err, Registered(r.ret),
                             <<new>> \o RegisterCallbacks(r.ret), <<>>)

ToxCore_dataAsGiven(options, data, r) ==
    LET new == Call("none", "tox_new", TOX_ERR_NEW_OK, <<options, QBA_data(data), data.len>>, r)
        c == ToxCore_strictLoad(options, data, r)
    IN  Constructed(c.tox, c.error, c.callbacks,
                    <<new>> \o SubSeq(c.res.calls, 2, Len(c.res.calls)), c.res.diags)

ToxCore_lastLeftOut(options, data, r) ==
    LET c == ToxCore_strictLoad(options, data, r)
    IN  IF c.callbacks = {} THEN c
        ELSE Constructed(c.tox, c.error,
                         c.callbacks \ { cb \in c.callbacks :
                                            cb.category = "friend_lossless_packet" },
                         SubSeq(c.res.calls, 1, Len(c.res.calls) - 1), c.res.diags)

ToxCore(options, data, r) ==
    LET dat == IF data.len = 0 THEN NullBuf ELSE QBA_data(data)
        size == IF data.len = 0 THEN 0 ELSE data.len
        new == Call("none", "tox_new", TOX_ERR_NEW_OK, <<options, dat, size>>, r)
    IN  IF r.err = TOX_ERR_NEW_LOAD_BAD_FORMAT
            THEN Constructed(r.ret, r.err, Registered(r.ret),
                             <<new>> \o RegisterCallbacks(r.ret),
                             <<[kind |-> "bad load format", who |-> "tox_new",
                                line |-> 0, a |-> r.err, b |-> 0]>>)
        ELSE IF r.err # TOX_ERR_NEW_OK
            THEN Constructed(NullPtr, r.err, {}, <<new>>, <<FailedDiag("tox_new", r.err)>>)
        ELSE Constructed(r.ret, r.err, Registered(r.ret),
                         <<new>> \o RegisterCallbacks(r.ret), <<>>)

constructorError(e) == Result(e, <<>>, <<>>)

ToxCore_dtor_leak(t) == Result(FALSE, <<>>, <<>>)

\* ToxCore::~ToxCore
ToxCore_dtor(t) ==
    Result(FALSE,
           <<Call("none", "tox_kill", TOX_ERR_OK, <<t>>, [ret |-> FALSE, err |-> TOX_ERR_OK])>>,
           <<>>)

----------------------------------------------------------------------------
(* ToxOptions: the owner of a Tox_Options handle *)

OptionHandles == {"options1", "options2"}

\* ToxOptions::ToxOptions: new is what tox_options_new returned; on nullptr the
\* constructor throws std::bad_alloc and no object comes to exist
ToxOptions(new) ==
    LET call == Call("none", "tox_options_new", TOX_ERR_OK, <<NullPtr>>,
                     [ret |-> new, err |-> TOX_ERR_OK])
    IN  IF new = NullPtr
            THEN [ret |-> NullPtr, calls |-> <<call>>,
                  diags |-> <<[kind |-> "malloc", who |-> "ToxOptions", line |-> 0,
                               a |-> 0, b |-> 0]>>,
                  threw |-> TRUE]
            ELSE Result(new, <<call>>, <<>>)

\* the copy constructor the compiler generates, the class declaring none: the
\* new object's tox_options is the pointer of the object copied
ToxOptions_copy(tox_options) == Result(tox_options, <<>>, <<>>)

\* ToxOptions::optionsDefault
optionsDefault(tox_options) ==
    Result(FALSE, <<Call("none", "tox_options_default", TOX_ERR_OK, <<tox_options>>, Void)>>,
           <<>>)

\* ToxOptions::~ToxOptions
ToxOptions_dtor(tox_options) ==
    Result(FALSE, <<Call("none", "tox_options_free", TOX_ERR_OK, <<tox_options>>, Void)>>,
           <<>>)

----------------------------------------------------------------------------
(* The event bridge.  A callback the library raises is a record: its         *)
(* category, the user data registered for it, its scalar arguments ids       *)
(* (numbers, enum values and flags, all written as numbers), and where the   *)
(* category has them a public key, a buffer data and a length.  An event is  *)
(* the signal emitted, the session it is emitted on, its scalar arguments    *)
(* and the containers made of the key and of the buffer.                     *)

Event(signal, core, ids, key, payload) ==
    [signal |-> signal, core |-> core, ids |-> ids, key |-> key, payload |-> payload]

\* in the order of CallbackCategories: the trampoline the constructor registers
\* for the category, the signal it emits and what it decodes
Trampolines ==
    << [fn |-> "_selfConnectionStatusChanged", signal |-> "selfConnectionStatusChanged",
        decodes |-> "nothing"],
       [fn |-> "_friendNameChanged", signal |-> "friendNameChanged", decodes |-> "text"],
       [fn |-> "_friendStatusMessageChanged", signal |-> "friendStatusMessageChanged",
        decodes |-> "text"],
       [fn |-> "_friendStatusChanged", signal |-> "friendStatusChanged", decodes |-> "nothing"],
       [fn |-> "_friendConnectionStatusChanged", signal |-> "friendConnectionStatusChanged",
        decodes |-> "nothing"],
       [fn |-> "_friendTypingChanged", signal |-> "friendTypingChanged", decodes |-> "nothing"],
       [fn |-> "_friendReadReceiptReceived", signal |-> "friendReadReceiptReceived",
        decodes |-> "nothing"],
       [fn |-> "_friendRequestReceived", signal |-> "friendRequestReceived",
        decodes |-> "request"],
       [fn |-> "_friendMessageReceived", signal |-> "friendMessageReceived", decodes |-> "text"],
       [fn |-> "_fileControlReceived", signal |-> "fileControlReceived", decodes |-> "nothing"],
       [fn |-> "_fileChunkRequested", signal |-> "fileChunkRequested", decodes |-> "length"],
       [fn |-> "_fileReceiveRequested", signal |-> "fileReceiveRequested", decodes |-> "text"],
       [fn |-> "_fileChunkReceived", signal |-> "fileChunkReceived", decodes |-> "bytes"],
       [fn |-> "_groupInviteReceived", signal |-> "groupInviteReceived", decodes |-> "bytes"],
       [fn |-> "_groupMessageReceived", signal |-> "groupMessageReceived", decodes |-> "text"],
       [fn |-> "_groupActionReceived", signal |-> "groupActionReceived", decodes |-> "text"],
       [fn |-> "_groupTitleChanged", signal |-> "groupTitleChanged", decodes |-> "text"],
       [fn |-> "_groupNamelistChanged", signal |-> "groupNamelistChanged",
        decodes |-> "nothing"],
       [fn |-> "_friendLossyPacketReceived", signal |-> "friendLossyPacketReceived",
        decodes |-> "bytes"],
       [fn |-> "_friendLosslessPacketReceived", signal |-> "friendLosslessPacketReceived",
        decodes |-> "bytes"] >>

TrampolineFor(category) ==
    Trampolines[CHOOSE i \in 1..Len(CallbackCategories) : CallbackCategories[i] = category]

Trampoline_keyLength(f, o) ==
    CASE f.decodes = "nothing" -> Event(f.signal, o.context, o.ids, NoContainer, NoContainer)
      [] f.decodes = "length" ->
            Event(f.signal, o.context, o.ids \o <<o.length>>, NoContainer, NoContainer)
      [] f.decodes = "text" ->
            Event(f.signal, o.context, o.ids, NoContainer, toString(o.data, o.length))
      [] f.decodes = "bytes" ->
            Event(f.signal, o.context, o.ids, NoContainer, QByteArrayOf(o.data, o.length))
      [] f.decodes = "request" ->
            Event(f.signal, o.context, o.ids, QByteArrayOf(o.key, TOX_PUBLIC_KEY_SIZE),
                  toString(o.data, TOX_PUBLIC_KEY_SIZE))

\* the trampoline f called with the callback o: the event it emits
Trampoline(f, o) ==
    CASE f.decodes = "nothing" -> Event(f.signal, o.context, o.ids, NoContainer, NoContainer)
      [] f.decodes = "length" ->
            Event(f.signal, o.context, o.ids \o <<o.length>>, NoContainer, NoContainer)
      [] f.decodes = "text" ->
            Event(f.signal, o.context, o.ids, NoContainer, toString(o.data, o.length))
      [] f.decodes = "bytes" ->
            Event(f.signal, o.context, o.ids, NoContainer, QByteArrayOf(o.data, o.length))
      [] f.decodes = "request" ->
            Event(f.signal, o.context, o.ids, QByteArrayOf(o.key, TOX_PUBLIC_KEY_SIZE),
                  toString(o.data, o.length))

Emitted_lastFirst(batch) ==
    [ i \in 1..Len(batch) |->
        Trampoline(TrampolineFor(batch[Len(batch) + 1 - i].category),
                   batch[Len(batch) + 1 - i]) ]

\* tox_iterate raises the callbacks of batch one after the other; each
\* trampoline emits its signal before it returns
Emitted(batch) ==
    [ i \in 1..Len(batch) |-> Trampoline(TrampolineFor(batch[i].category), batch[i]) ]

OwnSignals_setter(name) ==
    IF name = "setSelfStatus"
        THEN <<Event("selfStatusChanged", This, <<>>, NoContainer, NoContainer)>>
        ELSE <<>>

\* the signals a member function of ToxCore emits itself: there is no emit
\* outside the trampolines
OwnSignals(name) == <<>>

----------------------------------------------------------------------------
(* The mock library's side of the queries and of tox_iterate *)

\* the data the library holds for a session and hands out by size query and fill
Kinds ==
    { "savedata", "self_name", "self_status_message", "friend_list", "friend_name",
      "friend_status_message" }

\* the answers to a fallible size query of a datum of n bytes: n or SIZE_MAX,
\* with any error code
SizeAnswers(n) == Responses({n, SIZE_MAX})

\* the answers to a fallible fill: true or false, with any error code
FillAnswers == Responses(BOOLEAN)

\* what the library may hold after a processing step: the same, or, while the
\* network still has changes to deliver, one datum replaced
Changed(L, n) ==
    IF n = 0 THEN {L}
    ELSE {L} \cup { [L EXCEPT ![k] = v] : k \in Kinds, v \in {0, MaxSize} }

\* the number of scalar arguments of a callback
Arity(category) ==
    CASE category \in {"friend_request"} -> 0
      [] category \in {"self_connection_status", "friend_name", "friend_status_message",
                       "friend_lossy_packet", "friend_lossless_packet"} -> 1
      [] category \in {"friend_status", "friend_connection_status", "friend_typing",
                       "friend_read_receipt", "friend_message", "group_invite",
                       "group_message", "group_action", "group_title"} -> 2
      [] category \in {"file_recv_control", "file_chunk_request", "file_recv_chunk",
                       "group_namelist_change"} -> 3
      [] category = "file_recv" -> 4

\* the lengths the mock gives a callback: none, or nothing and the most the
\* category (or the type of its length) allows
Lengths(category) ==
    CASE category = "friend_name" -> {0, TOX_MAX_NAME_LENGTH}
      [] category = "friend_status_message" -> {0, TOX_MAX_STATUS_MESSAGE_LENGTH}
      [] category = "friend_request" -> {0, TOX_MAX_FRIEND_REQUEST_LENGTH}
      [] category = "friend_message" -> {0, TOX_MAX_MESSAGE_LENGTH}
      [] category = "file_recv" -> {0, TOX_MAX_FILENAME_LENGTH}
      [] category \in {"friend_lossy_packet", "friend_lossless_packet"} ->
            {0, TOX_MAX_CUSTOM_PACKET_SIZE}
      [] category \in {"file_chunk_request", "file_recv_chunk", "group_invite",
                       "group_message", "group_action"} -> {0, UINT16_MAX}
      [] category = "group_title" -> {0, UINT8_MAX}
      [] OTHER -> {0}

Occurrence(cb, n) ==
    [category |-> cb.category, context |-> cb.context,
     ids |-> [i \in 1..Arity(cb.category) |-> i],
     key |-> IF cb.category = "friend_request" THEN Buf(TOX_PUBLIC_KEY_SIZE) ELSE NullBuf,
     data |-> IF TrampolineFor(cb.category).decodes \in {"text", "bytes", "request"}
                  THEN Buf(n) ELSE NullBuf,
     length |-> n]

\* the callbacks the library can raise: those registered with it
Occurrences(cbs) ==
    UNION { { Occurrence(cb, n) : n \in Lengths(cb.category) } : cb \in cbs }

\* what the library raises in one processing step: up to n callbacks, in some order
Batches(n, cbs) == UNION { [1..k -> Occurrences(cbs)] : k \in 0..n }

----------------------------------------------------------------------------
(* The state machine: one action per operation of the session *)

IsKill(c) == c.fn = "tox_kill"
KilledBy(calls) == [ i \in 1..Len(SelectSeq(calls, IsKill)) |-> SelectSeq(calls, IsKill)[i].args[1] ]

\* a method of a constructed session ran and returned res
Ran(name, in, res) ==
    /\ op' = OpRecord(name, in, res)
    /\ kills' = kills \o KilledBy(res.calls)
    /\ events' = events \o OwnSignals(name)
    /\ UNCHANGED <<alive, tox, error, callbacks>>
    /\ UNCHANGED <<libvars, raised, optvars>>

Options == "tox_options"
SaveData == { [len |-> n] : n \in {0, 64} }

\* no session object yet
NoSession ==
    /\ alive = "none"
    /\ tox = NullPtr
    /\ error = TOX_ERR_NEW_OK
    /\ callbacks = {}
    /\ kills = <<>>
    /\ op = NoOp

\* a library that holds nothing, on a network where nothing happens
QuietLibrary ==
    /\ lib = [k \in Kinds |-> 0]
    /\ net = [raise |-> 0, change |-> 0]
    /\ raised = <<>>
    /\ events = <<>>

OptionObjects == {"a", "b"}

NoOptions ==
    /\ opts = [o \in OptionObjects |-> "none"]
    /\ frees = <<>>

Init ==
    /\ NoSession
    /\ QuietLibrary
    /\ NoOptions

Construct ==
    /\ alive = "none"
    /\ \E data \in SaveData, r \in ToxNewResponses :
         LET c == ToxCore(Options, data, r)
         IN  /\ alive' = "constructed"
             /\ tox' = c.tox
             /\ error' = c.error
             /\ callbacks' = c.callbacks
             /\ kills' = kills \o KilledBy(c.res.calls)
             /\ op' = OpRecord("ToxCore", [data |-> data], c.res)
    /\ events' = events \o OwnSignals("ToxCore")
    /\ UNCHANGED <<libvars, raised, optvars>>

\* the constructor run on a library that answers with any of ToxNewAnswers
ConstructAny ==
    /\ alive = "none"
    /\ \E data \in SaveData, r \in ToxNewAnswers :
         LET c == ToxCore(Options, data, r)
         IN  /\ alive' = "constructed"
             /\ tox' = c.tox
             /\ error' = c.error
             /\ callbacks' = c.callbacks
             /\ kills' = kills \o KilledBy(c.res.calls)
             /\ op' = OpRecord("ToxCore", [data |-> data], c.res)
    /\ events' = events \o OwnSignals("ToxCore")
    /\ UNCHANGED <<libvars, raised, optvars>>

Destruct ==
    /\ alive = "constructed"
    /\ LET res == ToxCore_dtor(tox)
       IN  /\ alive' = "destroyed"
           /\ callbacks' = {}
           /\ kills' = kills \o KilledBy(res.calls)
           /\ op' = OpRecord("~ToxCore", <<>>, res)
    /\ events' = events \o OwnSignals("~ToxCore")
    /\ UNCHANGED <<tox, error>>
    /\ UNCHANGED <<libvars, raised, optvars>>

\* tox_options_new returns a handle not in use, or nullptr
ConstructOptions ==
    \E o \in OptionObjects :
        /\ opts[o] = "none"
        /\ \E new \in {NullPtr} \cup
                       (OptionHandles \ ({opts[x] : x \in OptionObjects} \cup
                                         {frees[i] : i \in 1..Len(frees)})) :
             LET res == ToxOptions(new)
             IN  /\ opts' = IF res.threw THEN opts ELSE [opts EXCEPT ![o] = res.ret]
                 /\ op' = OpRecord("ToxOptions", [object |-> o], res)
        /\ UNCHANGED <<sessionvars, libvars, eventvars, frees>>

\* ToxOptions b(a)
CopyOptions ==
    \E a, b \in OptionObjects :
        /\ opts[a] \in OptionHandles
        /\ opts[b] = "none"
        /\ LET res == ToxOptions_copy(opts[a])
           IN  /\ opts' = [opts EXCEPT ![b] = res.ret]
               /\ op' = OpRecord("ToxOptions(const ToxOptions&)", [object |-> b], res)
        /\ UNCHANGED <<sessionvars, libvars, eventvars, frees>>

DoOptionsDefault ==
    \E o \in OptionObjects :
        /\ opts[o] \in OptionHandles
        /\ op' = OpRecord("optionsDefault", [object |-> o], optionsDefault(opts[o]))
        /\ UNCHANGED <<sessionvars, libvars, eventvars, optvars>>

DestructOptions ==
    \E o \in OptionObjects :
        /\ opts[o] \in OptionHandles
        /\ LET res == ToxOptions_dtor(opts[o])
           IN  /\ frees' = frees \o [i \in 1..Len(res.calls) |-> res.calls[i].args[1]]
               /\ op' = OpRecord("~ToxOptions", [object |-> o], res)
        /\ opts' = [opts EXCEPT ![o] = "destroyed"]
        /\ UNCHANGED <<sessionvars, libvars, eventvars>>

\* what the library answers to a query of a group text: -1, or a length up to
\* that of the buffer
GroupTextAnswers == {-1, 0, MaxSize, TOX_MAX_NAME_LENGTH}

\* where the first zero byte of the buffer may be: right after what was written,
\* or nowhere in the buffer
FirstNul(size) == {IF size < 0 THEN 0 ELSE size, TOX_MAX_NAME_LENGTH}

DoGroupPeerName ==
    /\ alive = "constructed"
    /\ \E group_number \in Numbers, peer_number \in Numbers, size \in GroupTextAnswers :
         \E nul \in FirstNul(size) :
            Ran("groupPeerName", [group_number |-> group_number, peer_number |-> peer_number],
                groupPeerName(tox, group_number, peer_number, size, nul))

DoGroupGetTitle ==
    /\ alive = "constructed"
    /\ \E group_number \in Numbers, size \in GroupTextAnswers :
         \E nul \in FirstNul(size) :
            Ran("groupGetTitle", [group_number |-> group_number],
                groupGetTitle(tox, group_number, size, nul))

\* the peer counts the library reports: -1, or a number of peers
PeerCounts == {-1, 0, MaxPeers}

DoGroupGetNames ==
    /\ alive = "constructed"
    /\ \E group_number \in Numbers, num \in PeerCounts, got \in PeerCounts,
          lengths \in [1..MaxPeers -> {0, TOX_MAX_NAME_LENGTH}], fault \in NegativeNew :
         Ran("groupGetNames", [group_number |-> group_number],
             groupGetNames(tox, group_number, num, got, lengths, fault))

\* the sizes a guard is tried with: small ones, the limits of the wrapper and
\* the top of the range of size_t
SizeSamples ==
    { 0, 1, TOX_PUBLIC_KEY_SIZE, TOX_PUBLIC_KEY_SIZE + 1, TOX_MAX_NAME_LENGTH,
      TOX_MAX_NAME_LENGTH + 1, SIZE_MAX - 1, SIZE_MAX }

\* CLAMP(sz, req, type) evaluated in some method
DoClamp ==
    /\ \E sz \in SizeSamples, req \in SizeSamples, type \in {CLAMP_LTE, CLAMP_EQ, CLAMP_GTE} :
         LET c == clamp(sz, req, type, "setSelfName", 243)
         IN  op' = OpRecord("clamp", [sz |-> sz, req |-> req, type |-> type],
                            Result(c.ok, <<>>, c.diags))
    /\ UNCHANGED <<sessionvars, libvars, eventvars, optvars>>

DoConstructorError ==
    /\ alive = "constructed"
    /\ Ran("constructorError", <<>>, constructorError(error))

DoBootstrap ==
    /\ alive = "constructed"
    /\ \E host \in QStrings(MAX_HOST_LENGTH), port \in Ports,
          publicKey \in QByteArrays(TOX_PUBLIC_KEY_SIZE), r \in Responses(BOOLEAN) :
         Ran("bootstrap", [host |-> host, port |-> port, publicKey |-> publicKey],
             bootstrap(tox, host, port, publicKey, r))

DoAddTcpRelay ==
    /\ alive = "constructed"
    /\ \E host \in QStrings(MAX_HOST_LENGTH), port \in Ports,
          publicKey \in QByteArrays(TOX_PUBLIC_KEY_SIZE), r \in Responses(BOOLEAN) :
         Ran("addTcpRelay", [host |-> host, port |-> port, publicKey |-> publicKey],
             addTcpRelay(tox, host, port, publicKey, r))

DoIterate ==
    /\ alive = "constructed"
    /\ \E batch \in Batches(net.raise, callbacks),
          L \in Changed(lib, IF tox \in Handles THEN net.change ELSE 0) :
         /\ op' = OpRecord("iterate", <<>>, iterate(tox))
         /\ lib' = L
         /\ net' = [raise |-> net.raise - Len(batch),
                    change |-> IF L = lib THEN net.change ELSE net.change - 1]
         /\ raised' = raised \o batch
         /\ events' = events \o OwnSignals("iterate") \o Emitted(batch)
    /\ UNCHANGED <<sessionvars, optvars>>

DoSetSelfName ==
    /\ alive = "constructed"
    /\ \E name \in QStrings(TOX_MAX_NAME_LENGTH), r \in Responses(BOOLEAN) :
         Ran("setSelfName", [name |-> name], setSelfName(tox, name, r))

DoSetSelfStatus ==
    /\ alive = "constructed"
    /\ \E user_status \in 0..2 :
         Ran("setSelfStatus", [user_status |-> user_status], setSelfStatus(tox, user_status))

DoGetSaveData ==
    /\ alive = "constructed"
    /\ Ran("getSaveData", <<>>, getSaveData(tox, lib))

DoGetSelfName ==
    /\ alive = "constructed"
    /\ Ran("getSelfName", <<>>, getSelfName(tox, lib))

DoGetSelfStatusMessage ==
    /\ alive = "constructed"
    /\ Ran("getSelfStatusMessage", <<>>, getSelfStatusMessage(tox, lib))

DoGetSelfFriendList ==
    /\ alive = "constructed"
    /\ Ran("getSelfFriendList", <<>>, getSelfFriendList(tox, lib))

DoFriendGetName ==
    /\ alive = "constructed"
    /\ \E friend_number \in Numbers, r1 \in SizeAnswers(lib["friend_name"]),
          r2 \in FillAnswers :
         Ran("friendGetName", [friend_number |-> friend_number],
             friendGetName(tox, friend_number, lib, r1, r2))

DoFriendGetStatusMessage ==
    /\ alive = "constructed"
    /\ \E friend_number \in Numbers, r1 \in SizeAnswers(lib["friend_status_message"]),
          r2 \in FillAnswers :
         Ran("friendGetStatusMessage", [friend_number |-> friend_number],
             friendGetStatusMessage(tox, friend_number, lib, r1, r2))

DoSetSelfStatusMessage ==
    /\ alive = "constructed"
    /\ \E status \in QStrings(TOX_MAX_STATUS_MESSAGE_LENGTH), r \in Responses(BOOLEAN) :
         Ran("setSelfStatusMessage", [status |-> status],
             setSelfStatusMessage(tox, status, r))

DoFriendAdd ==
    /\ alive = "constructed"
    /\ \E address \in QByteArrays(TOX_ADDRESS_SIZE),
          message \in QStrings(TOX_MAX_FRIEND_REQUEST_LENGTH),
          r \in Responses(Numbers \cup {UINT32_MAX}) :
         Ran("friendAdd", [address |-> address, message |-> message],
             friendAdd(tox, address, message, r))

DoFriendAddNoRequest ==
    /\ alive = "constructed"
    /\ \E publicKey \in QByteArrays(TOX_PUBLIC_KEY_SIZE),
          r \in Responses(Numbers \cup {UINT32_MAX}) :
         Ran("friendAddNoRequest", [publicKey |-> publicKey],
             friendAddNoRequest(tox, publicKey, r))

DoFriendDelete ==
    /\ alive = "constructed"
    /\ \E friend_number \in Numbers, r \in Responses(BOOLEAN) :
         Ran("friendDelete", [friend_number |-> friend_number],
             friendDelete(tox, friend_number, r))

DoFriendByPublicKey ==
    /\ alive = "constructed"
    /\ \E public_key \in QByteArrays(TOX_PUBLIC_KEY_SIZE),
          r \in Responses(Numbers \cup {UINT32_MAX}) :
         Ran("friendByPublicKey", [public_key |-> public_key],
             friendByPublicKey(tox, public_key, r))

DoFriendGetStatus ==
    /\ alive = "constructed"
    /\ \E friend_number \in Numbers, r \in Responses(0..2) :
         Ran("friendGetStatus", [friend_number |-> friend_number],
             friendGetStatus(tox, friend_number, r))

DoFriendGetConnectionStatus ==
    /\ alive = "constructed"
    /\ \E friend_number \in Numbers, r \in Responses(0..2) :
         Ran("friendGetConnectionStatus", [friend_number |-> friend_number],
             friendGetConnectionStatus(tox, friend_number, r))

DoFriendGetTyping ==
    /\ alive = "constructed"
    /\ \E friend_number \in Numbers, r \in Responses(BOOLEAN) :
         Ran("friendGetTyping", [friend_number |-> friend_number],
             friendGetTyping(tox, friend_number, r))

DoSelfSetTyping ==
    /\ alive = "constructed"
    /\ \E friend_number \in Numbers, typing \in BOOLEAN, r \in Responses(BOOLEAN) :
         Ran("selfSetTyping", [friend_number |-> friend_number, typing |-> typing],
             selfSetTyping(tox, friend_number, typing, r))

DoFriendSendMessage ==
    /\ alive = "constructed"
    /\ \E friend_number \in Numbers, type \in 0..1,
          message \in QStrings(TOX_MAX_MESSAGE_LENGTH), r \in Responses(Numbers) :
         Ran("friendSendMessage",
             [friend_number |-> friend_number, type |-> type, message |-> message],
             friendSendMessage(tox, friend_number, type, message, r))

DoFileControl ==
    /\ alive = "constructed"
    /\ \E friend_number \in Numbers, file_number \in Numbers, control \in 0..2,
          r \in Responses(BOOLEAN) :
         Ran("fileControl",
             [friend_number |-> friend_number, file_number |-> file_number,
              control |-> control],
             fileControl(tox, friend_number, file_number, control, r))

DoFileSeek ==
    /\ alive = "constructed"
    /\ \E friend_number \in Numbers, file_number \in Numbers, position \in Numbers,
          r \in Responses(BOOLEAN) :
         Ran("fileSeek",
             [friend_number |-> friend_number, file_number |-> file_number,
              position |-> position],
             fileSeek(tox, friend_number, file_number, position, r))

DoFileSend ==
    /\ alive = "constructed"
    /\ \E friend_number \in Numbers, file_size \in {1024},
          file_id \in QByteArrays(TOX_FILE_ID_LENGTH),
          filename \in QStrings(TOX_MAX_FILENAME_LENGTH),
          r \in Responses(Numbers \cup {UINT32_MAX}) :
         Ran("fileSend",
             [friend_number |-> friend_number, kind |-> 0, file_size |-> file_size,
              file_id |-> file_id, filename |-> filename],
             fileSend(tox, friend_number, 0, file_size, file_id, filename, r))

DoFriendSendLossyPacket ==
    /\ alive = "constructed"
    /\ \E friend_number \in Numbers, data \in QByteArrays(TOX_MAX_CUSTOM_PACKET_SIZE),
          r \in Responses(BOOLEAN) :
         Ran("friendSendLossyPacket", [friend_number |-> friend_number, data |-> data],
             friendSendLossyPacket(tox, friend_number, data, r))

DoFriendSendLosslessPacket ==
    /\ alive = "constructed"
    /\ \E friend_number \in Numbers, data \in QByteArrays(TOX_MAX_CUSTOM_PACKET_SIZE),
          r \in Responses(BOOLEAN) :
         Ran("friendSendLosslessPacket", [friend_number |-> friend_number, data |-> data],
             friendSendLosslessPacket(tox, friend_number, data, r))

Next ==
    \/ Construct
    \/ Destruct
    \/ DoConstructorError
    \/ DoBootstrap
    \/ DoAddTcpRelay
    \/ DoIterate
    \/ DoSetSelfName
    \/ DoSetSelfStatusMessage
    \/ DoFriendAdd
    \/ DoFriendAddNoRequest
    \/ DoFriendDelete
    \/ DoFriendByPublicKey
    \/ DoFriendGetStatus
    \/ DoFriendGetConnectionStatus
    \/ DoFriendGetTyping
    \/ DoSelfSetTyping
    \/ DoFriendSendMessage
    \/ DoFileControl
    \/ DoFileSeek
    \/ DoFriendSendLossyPacket
    \/ DoFriendSendLosslessPacket

Spec == Init /\ [][Next]_vars

\* file transfers offered on a session
NextFile ==
    \/ Construct
    \/ Destruct
    \/ DoFileSend

SpecFile == Init /\ [][NextFile]_vars

\* the queries of a group chat
NextGroup ==
    \/ Construct
    \/ Destruct
    \/ DoGroupPeerName
    \/ DoGroupGetTitle
    \/ DoGroupGetNames

SpecGroup == Init /\ [][NextGroup]_vars

\* construction and teardown on a library that may give no instance along with
\* the bad-format code
NextCreate ==
    \/ ConstructAny
    \/ Destruct
    \/ DoConstructorError
    \/ DoSetSelfStatus
    \/ DoGetSaveData
    \/ DoFriendGetName

SpecCreate == Init /\ [][NextCreate]_vars

\* the guard on its own
SpecClamp == Init /\ [][DoClamp]_vars

\* the configuration objects next to a session
NextOptions ==
    \/ Construct
    \/ Destruct
    \/ ConstructOptions
    \/ CopyOptions
    \/ DoOptionsDefault
    \/ DestructOptions

SpecOptions == Init /\ [][NextOptions]_vars

\* queries answered from what the library holds, on a network that changes it
InitMarshal ==
    /\ NoSession
    /\ lib = [k \in Kinds |-> 0]
    /\ net = [raise |-> 0, change |-> MaxChanges]
    /\ raised = <<>>
    /\ events = <<>>
    /\ NoOptions

NextMarshal ==
    \/ Construct
    \/ Destruct
    \/ DoIterate
    \/ DoGetSaveData
    \/ DoGetSelfName
    \/ DoGetSelfStatusMessage
    \/ DoGetSelfFriendList
    \/ DoFriendGetName
    \/ DoFriendGetStatusMessage

SpecMarshal == InitMarshal /\ [][NextMarshal]_vars

\* a session on a network that raises callbacks
InitEvents ==
    /\ NoSession
    /\ lib = [k \in Kinds |-> 0]
    /\ net = [raise |-> MaxRaised, change |-> 0]
    /\ raised = <<>>
    /\ events = <<>>
    /\ NoOptions

NextEvents ==
    \/ Construct
    \/ Destruct
    \/ DoIterate
    \/ DoConstructorError
    \/ DoSetSelfStatus

SpecEvents == InitEvents /\ [][NextEvents]_vars

----------------------------------------------------------------------------
(* Vocabulary of the properties *)

\* methods whose boundary call goes through qtox_call_core
CoreOps ==
    { "bootstrap", "addTcpRelay", "setSelfName", "setSelfStatusMessage", "friendAdd",
      "friendAddNoRequest", "friendDelete", "friendByPublicKey", "selfSetTyping",
      "fileControl", "fileSeek", "fileSend", "friendSendLossyPacket",
      "friendSendLosslessPacket" }

\* methods whose boundary call goes through qtox_call_core_variant
VariantOps ==
    { "friendGetStatus", "friendGetConnectionStatus", "friendGetTyping",
      "friendSendMessage" }

Uint32Ops == { "friendAdd", "friendAddNoRequest", "friendByPublicKey", "fileSend" }

\* the value a method documents for failure
FailureValue(name) ==
    IF name \in VariantOps THEN QVariantNull
    ELSE IF name \in Uint32Ops THEN UINT32_MAX
    ELSE FALSE

\* the Tox* a boundary call was made with (tox_new takes none)
HandleOf(c) == c.args[1]

IsFailedDiag(d) == d.kind = "failed"
FailedDiags == SelectSeq(op.diags, IsFailedDiag)

IsLiveHandle(h) == h # NullPtr
LiveKills == SelectSeq(kills, IsLiveHandle)

----------------------------------------------------------------------------
(* C1 *)

\* C1: once the handle is null, every command and query other than
\* constructorError() returns its failure value without a boundary call, and
\* no command or query ever makes a boundary call with a null or already
\* destroyed handle.  (What teardown itself passes to tox_kill is not judged here.)
C1_GatedOnHandle ==
    /\ \A i \in 1..Len(op.calls) :
          op.calls[i].fn \notin {"tox_new", "tox_kill"} =>
              /\ HandleOf(op.calls[i]) # NullPtr
              /\ \A k \in 1..Len(kills) : kills[k] # HandleOf(op.calls[i])
    /\ (tox = NullPtr /\ op.name \in CoreOps \cup VariantOps \cup {"iterate"}) =>
          /\ op.calls = <<>>
          /\ op.name # "iterate" => op.ret = FailureValue(op.name)

----------------------------------------------------------------------------
(* C2 *)

----------------------------------------------------------------------------
(* C3 *)

C3_KillInv ==
    /\ Len(LiveKills) <= 1
    /\ alive # "destroyed" => kills = <<>>
    /\ (alive = "destroyed" /\ tox \in Handles) => LiveKills = <<tox>>
    /\ \A i \in 1..Len(op.calls) : op.calls[i].fn = "tox_kill" => op.name = "~ToxCore"

\* C3: tox_kill is called on a live handle exactly once, by the destructor
\* and by nothing else, and a destroyed session stays destroyed.
C3_DestroyedOnce ==
    /\ []C3_KillInv
    /\ [][alive = "destroyed" => alive' = "destroyed"]_vars

\* a live session has been torn down and its handle released
C3_LiveHandleKilled ==
    /\ alive = "destroyed"
    /\ tox \in Handles
    /\ kills = <<tox>>
    /\ op.name = "~ToxCore"

----------------------------------------------------------------------------
(* C4 *)

\* the arguments the methods without a guard give to qtox_call_core
DirectArgs ==
    CASE op.name = "friendDelete" -> <<tox, op.in.friend_number>>
      [] op.name = "selfSetTyping" -> <<tox, op.in.friend_number, op.in.typing>>
      [] op.name = "fileControl" ->
            <<tox, op.in.friend_number, op.in.file_number, op.in.control>>
      [] op.name = "fileSeek" ->
            <<tox, op.in.friend_number, op.in.file_number, op.in.position>>

\* C4: a call through qtox_call_core invokes the boundary function exactly
\* once, with the arguments given, and returns the value the function
\* returned, whether or not the error output is the success value.
C4_CallCorePassThrough ==
    (op.name \in CoreOps /\ op.calls # <<>>) =>
        /\ Len(op.calls) = 1
        /\ op.calls[1].norm = "core"
        /\ HandleOf(op.calls[1]) = tox
        /\ op.ret = op.calls[1].ret
        /\ op.name \in {"friendDelete", "selfSetTyping", "fileControl", "fileSeek"} =>
              op.calls[1].args = DirectArgs

\* the boundary reported an error and its value still reached the caller
C4_ValueKeptOnError ==
    /\ op.name = "friendDelete"
    /\ Len(op.calls) = 1
    /\ op.calls[1].err # op.calls[1].ok
    /\ op.calls[1].ret = TRUE
    /\ op.ret = TRUE

----------------------------------------------------------------------------
(* C5 *)

\* C5: a normalized boundary call logs exactly one "failed with code"
\* record, naming the function and the error value, if and only if the error
\* output differs from the success value.
C5_OneDiagnosticIffError ==
    op.name \in CoreOps \cup VariantOps =>
        IF op.calls # <<>> /\ op.calls[1].err # op.calls[1].ok
            THEN /\ Len(FailedDiags) = 1
                 /\ FailedDiags[1].who = op.calls[1].fn
                 /\ FailedDiags[1].a = op.calls[1].err
            ELSE FailedDiags = <<>>

\* a failed variant call has left its one record
C5_FailureLogged ==
    /\ op.name = "friendGetStatus"
    /\ op.calls[1].err # op.calls[1].ok
    /\ Len(FailedDiags) = 1
    /\ FailedDiags[1].who = "tox_friend_get_status"

----------------------------------------------------------------------------
(* C6 *)

\* C6: a variant-normalized method returns a null QVariant on any error code,
\* whatever the boundary returned, and a QVariant holding exactly the
\* boundary's value on success.
C6_VariantAbsentOrExact ==
    (op.name \in VariantOps /\ op.calls # <<>>) =>
        /\ Len(op.calls) = 1
        /\ op.calls[1].err # op.calls[1].ok => op.ret = QVariantNull
        /\ op.calls[1].err = op.calls[1].ok =>
              /\ Len(op.ret) = 1
              /\ op.ret[1] = op.calls[1].ret

\* the boundary returned a value with an error, and the caller got null
C6_ErrorHidesValue ==
    /\ op.name = "friendGetTyping"
    /\ op.calls[1].err # op.calls[1].ok
    /\ op.calls[1].ret = TRUE
    /\ op.ret = QVariantNull

----------------------------------------------------------------------------
(* C7 *)

SentinelOps ==
    { "friendAdd", "friendAddNoRequest", "friendByPublicKey", "bootstrap",
      "friendDelete", "selfSetTyping", "fileControl", "fileSeek" }

\* C7 as claimed, on a live session: on a non-success error code a
\* sentinel-returning method returns its sentinel, whatever the boundary call
\* returned, and does not throw.
C7_SentinelWhateverReturned ==
    (/\ tox \in Handles
     /\ op.name \in SentinelOps
     /\ op.calls # <<>>
     /\ op.calls[1].err # op.calls[1].ok) =>
        /\ ~op.threw
        /\ op.ret = FailureValue(op.name)

\* C7 as amended: on a non-success error code a sentinel-returning method
\* returns what the boundary call returned, hence its sentinel exactly when
\* the boundary returned the sentinel, and does not throw.
C7_SentinelWhenBoundaryReturnsIt ==
    (op.name \in SentinelOps /\ op.calls # <<>> /\ op.calls[1].err # op.calls[1].ok) =>
        /\ ~op.threw
        /\ op.ret = op.calls[1].ret
        /\ (op.ret = FailureValue(op.name)) <=> (op.calls[1].ret = FailureValue(op.name))

\* the boundary failed and returned the sentinel, which the caller received
C7_SentinelOnFailure ==
    /\ op.name = "friendAddNoRequest"
    /\ op.calls # <<>>
    /\ op.calls[1].err # op.calls[1].ok
    /\ op.calls[1].ret = UINT32_MAX
    /\ op.ret = UINT32_MAX

----------------------------------------------------------------------------
(* C8 *)

\* the length-guarded methods: the byte length of the guarded input, its
\* maximum, and whether the method's other guards pass
IsGuarded == op.name \in
    { "setSelfName", "setSelfStatusMessage", "friendAdd", "friendSendMessage",
      "friendSendLossyPacket", "friendSendLosslessPacket" }

GuardedLen ==
    CASE op.name = "setSelfName" -> op.in.name.bytes
      [] op.name = "setSelfStatusMessage" -> op.in.status.bytes
      [] op.name \in {"friendAdd", "friendSendMessage"} -> op.in.message.bytes
      [] op.name \in {"friendSendLossyPacket", "friendSendLosslessPacket"} -> op.in.data.len

GuardMax ==
    CASE op.name = "setSelfName" -> TOX_MAX_NAME_LENGTH
      [] op.name = "setSelfStatusMessage" -> TOX_MAX_STATUS_MESSAGE_LENGTH
      [] op.name = "friendAdd" -> TOX_MAX_FRIEND_REQUEST_LENGTH
      [] op.name = "friendSendMessage" -> TOX_MAX_MESSAGE_LENGTH
      [] op.name \in {"friendSendLossyPacket", "friendSendLosslessPacket"} ->
            TOX_MAX_CUSTOM_PACKET_SIZE

OtherGuardsPass ==
    op.name = "friendAdd" => op.in.address.len = TOX_ADDRESS_SIZE

\* C8: an input of exactly the maximum length passes the guard and the
\* boundary function is called once; an input one byte longer gets the
\* method's failure value and no boundary call.
C8_MaxLengthGuard ==
    IsGuarded =>
        /\ (GuardedLen = GuardMax /\ OtherGuardsPass) => Len(op.calls) = 1
        /\ GuardedLen = GuardMax + 1 =>
              /\ op.calls = <<>>
              /\ op.ret = FailureValue(op.name)

\* a name of 64 two-byte characters, 128 bytes, reached tox_self_set_name
C8_NameAtMaximum ==
    /\ op.name = "setSelfName"
    /\ op.in.name.bytes = TOX_MAX_NAME_LENGTH
    /\ op.in.name.chars < TOX_MAX_NAME_LENGTH
    /\ Len(op.calls) = 1
    /\ op.calls[1].args[3] = TOX_MAX_NAME_LENGTH

----------------------------------------------------------------------------
(* C9 *)

\* C9, on a live session: bootstrap and addTcpRelay call the boundary only
\* with a host buffer of at most 255 bytes and a key of exactly
\* TOX_PUBLIC_KEY_SIZE bytes; otherwise they return false without a boundary call.
C9_HostAndKeyValidated ==
    (tox \in Handles /\ op.name \in {"bootstrap", "addTcpRelay"}) =>
        /\ op.calls # <<>> =>
              /\ op.calls[1].args[2].len <= MAX_HOST_LENGTH
              /\ op.calls[1].args[4].len = TOX_PUBLIC_KEY_SIZE
        /\ (op.in.host.bytes > MAX_HOST_LENGTH \/ op.in.publicKey.len # TOX_PUBLIC_KEY_SIZE) =>
              /\ op.calls = <<>>
              /\ op.ret = FALSE

----------------------------------------------------------------------------
(* C10 *)

\* C10: with an empty message friendAdd returns UINT32_MAX and
\* friendSendMessage a null QVariant, both without a boundary call; friendAdd
\* makes no boundary call unless the address is TOX_ADDRESS_SIZE bytes long.
C10_MessageRequired ==
    /\ op.name = "friendAdd" =>
          /\ op.in.message.chars = 0 => (op.ret = UINT32_MAX /\ op.calls = <<>>)
          /\ op.in.address.len # TOX_ADDRESS_SIZE => op.calls = <<>>
    /\ (op.name = "friendSendMessage" /\ op.in.message.chars = 0) =>
          (op.ret = QVariantNull /\ op.calls = <<>>)

\* a friend request with a good address and no message was turned down
C10_EmptyRequestRejected ==
    /\ op.name = "friendAdd"
    /\ op.in.address.len = TOX_ADDRESS_SIZE
    /\ op.in.message.chars = 0
    /\ op.ret = UINT32_MAX
    /\ op.calls = <<>>

----------------------------------------------------------------------------
(* C11 *)

----------------------------------------------------------------------------
(* C12 *)

\* C12, on a live session: fileSend passes no filename longer than
\* TOX_MAX_FILENAME_LENGTH bytes to the boundary; with a longer one it returns
\* UINT32_MAX and makes no boundary call.
C12_FilenameLimited ==
    (tox \in Handles /\ op.name = "fileSend") =>
        /\ op.calls # <<>> => op.calls[1].args[7] <= TOX_MAX_FILENAME_LENGTH
        /\ op.in.filename.bytes > TOX_MAX_FILENAME_LENGTH =>
              /\ op.calls = <<>>
              /\ op.ret = UINT32_MAX

----------------------------------------------------------------------------
(* C13 to C16: size query, then fill *)

\* the operations that query a size and then have a buffer filled, with the
\* two functions of the library each of them calls
MarshalFunctions ==
    [ getSaveData |-> <<"tox_get_savedata_size", "tox_get_savedata">>,
      getSelfName |-> <<"tox_self_get_name_size", "tox_self_get_name">>,
      getSelfStatusMessage |->
          <<"tox_self_get_status_message_size", "tox_self_get_status_message">>,
      getSelfFriendList |-> <<"tox_self_get_friend_list_size", "tox_self_get_friend_list">>,
      friendGetName |-> <<"tox_friend_get_name_size", "tox_friend_get_name">>,
      friendGetStatusMessage |->
          <<"tox_friend_get_status_message_size", "tox_friend_get_status_message">> ]

MarshalOps == DOMAIN MarshalFunctions
FriendTextOps == {"friendGetName", "friendGetStatusMessage"}

\* the operation ran on a live session
Marshalled(ops) == tox \in Handles /\ op.name \in ops

\* the buffer handed to a fill is its last argument
BufferOf(call) == call.args[Len(call.args)]

\* the number of bytes (entries) of the value an operation returned
ResultLength(r) == IF "len" \in DOMAIN r THEN r.len ELSE r.bytes

\* a fill that cannot fail, or one that returned true
Filled(call) == call.norm = "none" \/ call.ret = TRUE

\* C13 as stated: when the size query of friendGetName or
\* friendGetStatusMessage reports an error code other than success, no fill
\* call is made and the null string is returned.
C13_NoFillOnErrorCode ==
    (Marshalled(FriendTextOps) /\ op.calls[1].err # TOX_ERR_OK) =>
        /\ Len(op.calls) = 1
        /\ op.ret = QStringNull

\* C13 amended: when the size query of friendGetName or friendGetStatusMessage
\* returns SIZE_MAX, whatever the error code, the size query is the only
\* boundary call (no buffer is handed to a fill) and the null string is
\* returned; when it returns any other size the fill call is made, whatever
\* the error code.
C13_NoFillOnSizeMax ==
    Marshalled(FriendTextOps) =>
        /\ op.calls[1].fn = MarshalFunctions[op.name][1]
        /\ op.calls[1].ret = SIZE_MAX =>
              /\ Len(op.calls) = 1
              /\ op.ret = QStringNull
        /\ op.calls[1].ret # SIZE_MAX =>
              /\ Len(op.calls) = 2
              /\ op.calls[2].fn = MarshalFunctions[op.name][2]

\* a size query returned SIZE_MAX and the operation stopped there
C13_SizeQueryFailed ==
    /\ Marshalled(FriendTextOps)
    /\ op.calls[1].ret = SIZE_MAX
    /\ op.calls[1].err # TOX_ERR_OK
    /\ Len(op.calls) = 1
    /\ op.ret = QStringNull

\* C14: in each of the six operations the fill call is made with a buffer of
\* exactly the length the size query returned, and when the size query
\* returned zero the buffer handed over and the value returned are empty.
C14_BufferOfReportedSize ==
    (Marshalled(MarshalOps) /\ Len(op.calls) >= 2) =>
        /\ ~BufferOf(op.calls[2]).null
        /\ BufferOf(op.calls[2]).len = op.calls[1].ret
        /\ op.calls[1].ret = 0 =>
              /\ BufferOf(op.calls[2]).len = 0
              /\ Filled(op.calls[2]) => ResultLength(op.ret) = 0

\* a size query returned zero and the fill was called with an empty buffer
C14_EmptyBufferFilled ==
    /\ Marshalled(MarshalOps)
    /\ Len(op.calls) = 2
    /\ op.calls[1].ret = 0
    /\ BufferOf(op.calls[2]) = Buf(0)

C16_NullIffErrorCode ==
    Marshalled(FriendTextOps) =>
        (op.ret.null <=> \E i \in 1..Len(op.calls) : op.calls[i].err # TOX_ERR_OK)

\* C16 amended: friendGetName and friendGetStatusMessage return the null string
\* if and only if the size query returned SIZE_MAX or the fill returned false,
\* whatever the error codes; for a text of size 0 whose fill returned true they
\* return an empty string that is not null.
C16_NullIffFailureReturned ==
    Marshalled(FriendTextOps) =>
        /\ op.ret.null <=>
              \/ op.calls[1].ret = SIZE_MAX
              \/ Len(op.calls) = 2 /\ op.calls[2].ret = FALSE
        /\ (Len(op.calls) = 2 /\ op.calls[1].ret = 0 /\ op.calls[2].ret = TRUE) =>
              op.ret = [null |-> FALSE, bytes |-> 0]

\* an empty text was returned as an empty string that is not null
C16_EmptyIsNotNull ==
    /\ Marshalled(FriendTextOps)
    /\ Len(op.calls) = 2
    /\ op.calls[1].ret = 0
    /\ op.calls[2].ret = TRUE
    /\ op.ret = [null |-> FALSE, bytes |-> 0]

----------------------------------------------------------------------------
(* C17 to C19: the event bridge *)

\* the signal of ToxCore for each category of callback, and the container its
\* buffer arrives in
ExpectedSignals ==
    [ self_connection_status |-> <<"selfConnectionStatusChanged", "none">>,
      friend_name |-> <<"friendNameChanged", "QString">>,
      friend_status_message |-> <<"friendStatusMessageChanged", "QString">>,
      friend_status |-> <<"friendStatusChanged", "none">>,
      friend_connection_status |-> <<"friendConnectionStatusChanged", "none">>,
      friend_typing |-> <<"friendTypingChanged", "none">>,
      friend_read_receipt |-> <<"friendReadReceiptReceived", "none">>,
      friend_request |-> <<"friendRequestReceived", "QString">>,
      friend_message |-> <<"friendMessageReceived", "QString">>,
      file_recv_control |-> <<"fileControlReceived", "none">>,
      file_chunk_request |-> <<"fileChunkRequested", "none">>,
      file_recv |-> <<"fileReceiveRequested", "QString">>,
      file_recv_chunk |-> <<"fileChunkReceived", "QByteArray">>,
      group_invite |-> <<"groupInviteReceived", "QByteArray">>,
      group_message |-> <<"groupMessageReceived", "QString">>,
      group_action |-> <<"groupActionReceived", "QString">>,
      group_title |-> <<"groupTitleChanged", "QString">>,
      group_namelist_change |-> <<"groupNamelistChanged", "none">>,
      friend_lossy_packet |-> <<"friendLossyPacketReceived", "QByteArray">>,
      friend_lossless_packet |-> <<"friendLosslessPacketReceived", "QByteArray">> ]

\* the event e is the callback o delivered: the signal of o's category, emitted
\* on the session o's context points to, with o's scalar arguments unchanged
\* (the length of a chunk request after them), its buffer in a container of
\* exactly o's length and, for a friend request, the key in a byte array of
\* TOX_PUBLIC_KEY_SIZE bytes
Delivers(e, o) ==
    LET x == ExpectedSignals[o.category]
    IN  /\ e.signal = x[1]
        /\ e.core = o.context
        /\ e.ids = IF o.category = "file_chunk_request" THEN o.ids \o <<o.length>> ELSE o.ids
        /\ e.payload = IF x[2] = "none" THEN NoContainer
                       ELSE [container |-> x[2], length |-> o.length]
        /\ e.key = IF o.category = "friend_request"
                       THEN [container |-> "QByteArray", length |-> TOX_PUBLIC_KEY_SIZE]
                       ELSE NoContainer

\* C17: every callback the library has raised, of whatever category, has
\* delivered exactly one event: there are as many events as callbacks, and the
\* event of each callback carries the signal of its category, the session of its
\* context, its identifiers unchanged and its buffer decoded at exactly the
\* length given, zero and the maximum included (and for a friend request a key
\* of TOX_PUBLIC_KEY_SIZE bytes).
C17_OneEventPerCallback ==
    /\ Len(events) = Len(raised)
    /\ \A i \in 1..Len(raised) : Delivers(events[i], raised[i])

\* a friend request with a message of the maximum length and a callback with an
\* empty text have both been delivered
C17_LongestAndEmptyDelivered ==
    /\ Len(events) = Len(raised)
    /\ \E i, j \in 1..Len(raised) :
         /\ raised[i].category = "friend_request"
         /\ raised[i].length = TOX_MAX_FRIEND_REQUEST_LENGTH
         /\ events[i].payload = [container |-> "QString",
                                 length |-> TOX_MAX_FRIEND_REQUEST_LENGTH]
         /\ events[i].key.length = TOX_PUBLIC_KEY_SIZE
         /\ raised[j].length = 0
         /\ events[j].payload = [container |-> "QString", length |-> 0]

\* C18: every step leaves the events delivered so far in place and appends, in
\* the order the library raised them in that step, one event for each callback
\* raised: none dropped, duplicated or reordered.
C18_DeliveredInOrder ==
    [][ /\ Len(raised') >= Len(raised)
        /\ SubSeq(events', 1, Len(events)) = events
        /\ Len(events') - Len(events) = Len(raised') - Len(raised)
        /\ \A k \in 1..(Len(raised') - Len(raised)) :
              Delivers(events'[Len(events) + k], raised'[Len(raised) + k]) ]_vars

\* two callbacks of different categories have been delivered
C18_TwoDelivered ==
    /\ op.name = "iterate"
    /\ Len(raised) = 2
    /\ Len(events) = 2
    /\ raised[1].category # raised[2].category
    /\ events[1].signal # events[2].signal

\* C19: the events change only in a step that is a call of iterate() on the
\* session, and every event added is emitted on that session; constructor,
\* destructor, commands and queries emit nothing.
C19_OnlyInsideIterate ==
    [][ events' # events =>
          /\ op'.name = "iterate"
          /\ alive = "constructed"
          /\ \A i \in (Len(events) + 1)..Len(events') : events'[i].core = This ]_vars

\* a command ran on a session that had delivered an event and has more to come
C19_CommandBetweenDeliveries ==
    /\ op.name = "setSelfStatus"
    /\ Len(events) = 1
    /\ net.raise > 0

----------------------------------------------------------------------------
(* C20 *)

\* how often tox_options_free has been called with the handle h
TimesFreed(h) == Cardinality({ i \in 1..Len(frees) : frees[i] = h })

\* C20: a ToxOptions object that exists holds a handle that is not null (a
\* construction that gets none throws and leaves no object), and
\* tox_options_free is called exactly once per handle allocated: never twice
\* with the same handle, and once with each handle no object holds any more.
C20_OptionsFreedOnce ==
    /\ \A o \in OptionObjects : opts[o] \in OptionHandles \cup {"none", "destroyed"}
    /\ op.name = "ToxOptions" => (op.threw <=> op.calls[1].ret = NullPtr)
    /\ \A h \in OptionHandles :
          /\ TimesFreed(h) <= 1
          /\ (h \in {frees[i] : i \in 1..Len(frees)} /\ \A o \in OptionObjects : opts[o] # h)
                => TimesFreed(h) = 1

----------------------------------------------------------------------------
(* C21 *)

\* the registrations made by the calls of an operation, as the library keeps them
RegistrationsOf(calls) ==
    { [category |-> calls[i].args[2], tox |-> calls[i].args[1], context |-> calls[i].args[3]] :
        i \in { j \in 1..Len(calls) : calls[j].fn # "tox_new" } }

\* C21: a constructed session has either a trampoline registered for each of
\* the 20 categories, once, with this session as context, or none at all; the
\* constructor makes 20 registration calls, one per category, or none.
C21_AllOrNoCallbacks ==
    alive = "constructed" =>
        /\ \/ callbacks = {}
           \/ /\ Cardinality(callbacks) = 20
              /\ \A i \in 1..Len(CallbackCategories) :
                    Cardinality({ cb \in callbacks :
                                    cb.category = CallbackCategories[i] }) = 1
              /\ \A cb \in callbacks : cb.context = This /\ cb.tox = tox
        /\ op.name = "ToxCore" =>
              /\ Len(op.calls) \in {1, 21}
              /\ RegistrationsOf(op.calls) = callbacks
              /\ \A i, j \in 2..Len(op.calls) : op.calls[i].fn = op.calls[j].fn => i = j

\* a session was constructed live and holds all 20 registrations
C21_AllRegistered ==
    /\ alive = "constructed"
    /\ op.name = "ToxCore"
    /\ Len(op.calls) = 21
    /\ Cardinality(callbacks) = 20

----------------------------------------------------------------------------
(* C22, C26: the guard *)

\* the size a is smaller than the size b: a size at the top of the range is
\* above every size at the bottom of it
SizeBelow(a, b) ==
    LET top(x) == IF x < 0 THEN 1 ELSE 0
    IN  top(a) < top(b) \/ (top(a) = top(b) /\ a < b)

C22_GuardInv ==
    op.name = "clamp" =>
        /\ op.ret <=>
              CASE op.in.type = CLAMP_LTE -> SizeBelow(op.in.sz, op.in.req) \/ op.in.sz = op.in.req
                [] op.in.type = CLAMP_EQ -> op.in.sz = op.in.req
                [] op.in.type = CLAMP_GTE -> SizeBelow(op.in.req, op.in.sz) \/ op.in.sz = op.in.req
        /\ op.calls = <<>>
        /\ ~op.threw

\* C22: clamp(sz, req, kind) returns true if and only if sz <= req (at most),
\* sz = req (exactly), sz >= req (at least) as sizes, over the whole range of
\* size_t, and does nothing but log: it makes no boundary call, throws nothing
\* and leaves the session, the library and the configuration objects as they are.
C22_GuardIsComparison ==
    /\ []C22_GuardInv
    /\ [][op'.name = "clamp" => UNCHANGED <<sessionvars, libvars, eventvars, optvars>>]_vars

\* an at-most guard failed on a size at the top of the range of size_t
C22_HugeSizeRejected ==
    /\ op.name = "clamp"
    /\ op.in.type = CLAMP_LTE
    /\ op.in.sz = SIZE_MAX
    /\ op.in.req = TOX_MAX_NAME_LENGTH
    /\ op.ret = FALSE

\* C26: a failed guard of kind at-most, exactly or at-least logs the
\* diagnostic with the call site and the two sizes, and nothing else; the
\* 'unknown clamp type' diagnostic does not appear for these kinds.
C26_SiteDiagnosticOnly ==
    (op.name = "clamp" /\ op.in.type \in {CLAMP_LTE, CLAMP_EQ, CLAMP_GTE}) =>
        /\ op.ret = FALSE => op.diags = <<ClampDiag("setSelfName", 243, op.in.sz, op.in.req)>>
        /\ \A i \in 1..Len(op.diags) : op.diags[i] # UnknownClampDiag

----------------------------------------------------------------------------
(* C23, C24, C29, C30: the queries of a group chat *)

GroupTextOps == {"groupPeerName", "groupGetTitle"}

IsClampDiag(d) == d.kind = "clamp"

\* C23: when the library returns a negative length to groupPeerName or
\* groupGetTitle, the 'at least 0' guard fails (and logs its diagnostic) and
\* the null string is returned.
C23_NullOnNegativeLength ==
    (tox \in Handles /\ op.name \in GroupTextOps /\ op.calls[1].ret < 0) =>
        /\ op.ret = QStringNull
        /\ SelectSeq(op.diags, IsClampDiag) # <<>>

\* C30: when the library returns a length size >= 0 to groupPeerName or
\* groupGetTitle, the string returned holds exactly the size bytes the library
\* wrote, and nothing of the rest of the buffer.
C30_ExactlyTheBytesWritten ==
    (tox \in Handles /\ op.name \in GroupTextOps /\ op.calls[1].ret >= 0) =>
        op.ret = [null |-> FALSE, bytes |-> op.calls[1].ret]

IsNew(c) == c.fn = "operator new[]"
IsDelete(c) == c.fn = "operator delete[]"

\* C24: groupGetNames throws nothing and allocates no array of a negative
\* number of elements; when the peer count is negative or the fill returns
\* another count it returns the empty list, and otherwise a list of as many
\* names as the peer count, the i-th decoded with the i-th length written.
C24_NamesOrEmptyList ==
    (tox \in Handles /\ op.name = "groupGetNames") =>
        LET num == op.calls[1].ret
            fills == SelectSeq(op.calls, LAMBDA c : c.fn = "tox_group_get_names")
            news == SelectSeq(op.calls, IsNew)
        IN  /\ ~op.threw
            /\ \A i \in 1..Len(news) : news[i].args[2] >= 0
            /\ (num < 0 \/ fills = <<>>) => op.ret = <<>>
            /\ (fills # <<>> /\ fills[1].ret # num) => op.ret = <<>>
            /\ (num >= 0 /\ fills # <<>> /\ fills[1].ret = num) =>
                  /\ Len(op.ret) = num
                  /\ \A i \in 1..num :
                        op.ret[i] = [container |-> "QString", length |-> fills[1].wrote[i]]

\* C29: whenever groupGetNames returns, each array it allocated with new[] has
\* been released with delete[].
C29_TemporariesReleased ==
    (tox \in Handles /\ op.name = "groupGetNames" /\ ~op.threw) =>
        LET news == SelectSeq(op.calls, IsNew)
            deletes == SelectSeq(op.calls, IsDelete)
        IN  \A i \in 1..Len(news) :
              \E j \in 1..Len(deletes) : deletes[j].args[1] = news[i].args[1]

----------------------------------------------------------------------------
(* C25 *)

\* C25: the array getSaveData returns has exactly the length the size query
\* returned and is the buffer the library filled; the constructor hands
\* non-empty data to tox_new as the array's own bytes with the array's length,
\* and empty data as nullptr with length 0.
C25_SaveDataUnmodified ==
    /\ (tox \in Handles /\ op.name = "getSaveData") =>
          /\ op.ret = [len |-> op.calls[1].ret]
          /\ op.calls[2].args[2] = QBA_data(op.ret)
    /\ op.name = "ToxCore" =>
          /\ op.calls[1].fn = "tox_new"
          /\ op.in.data.len > 0 =>
                /\ op.calls[1].args[2] = QBA_data(op.in.data)
                /\ op.calls[1].args[3] = op.in.data.len
          /\ op.in.data.len = 0 =>
                /\ op.calls[1].args[2] = NullBuf
                /\ op.calls[1].args[3] = 0

\* a session was created from saved state
C25_StateLoaded ==
    /\ op.name = "ToxCore"
    /\ op.in.data.len = 64
    /\ op.calls[1].args[2] = Buf(64)
    /\ op.calls[1].args[3] = 64
    /\ tox \in Handles

----------------------------------------------------------------------------
(* C27, C28 *)

\* C27: tox_kill is never called with a null handle; the teardown of a
\* session whose construction failed calls tox_kill not at all.
C27_NoKillOfNull ==
    /\ \A i \in 1..Len(kills) : kills[i] # NullPtr
    /\ (alive = "destroyed" /\ tox = NullPtr) => kills = <<>>

\* C28: every registration call the constructor makes, on the path of
\* TOX_ERR_NEW_LOAD_BAD_FORMAT as on that of TOX_ERR_NEW_OK, is made with a
\* handle that is not null, and so is every registration the library holds.
C28_RegisteredOnLiveHandle ==
    /\ op.name = "ToxCore" =>
          \A i \in 2..Len(op.calls) : op.calls[i].args[1] # NullPtr
    /\ \A cb \in callbacks : cb.tox # NullPtr

=============================================================================
